---- MODULE Spec2Model ----
(***************************************************************************)
(* GatewaySwap (hummingbot/connector/gateway/gateway_swap.py): the adapter *)
(* that turns buy/sell intents and quote requests into calls against the   *)
(* gateway's "quote-swap" and "execute-swap" endpoints.                    *)
(*                                                                         *)
(* Python values are modelled as follows.  A str is a sequence of          *)
(* one-character strings.  An Optional is a sequence of length 0 (None) or *)
(* 1.  A Decimal is a natural number (a whole number of the smallest unit  *)
(* the token knows).  A float is the natural number it holds after         *)
(* rounding to the significand (see float).  A dict is a function from its *)
(* keys.  An outgoing call is a record whose field op names the callee.    *)
(***************************************************************************)
EXTENDS Integers, Sequences, FiniteSets, TLC

VARIABLES
    order_seq,      \* ids handed out so far by create_market_order_id
    returned,       \* what buy()/sell() returned to their callers, in call order
    tasks,          \* the _create_order coroutines scheduled by place_order
    connector_name, \* the connector this instance was constructed for
    now,            \* the clock the quote cache reads, in seconds
    cache,          \* the entries of get_quote_price's TTL cache, oldest first
    qcalls,         \* per caller: its current get_quote_price/get_order_price call
    ncalls,         \* quote calls started so far
    parse_in,       \* arguments of a direct parse_price_response call
    parse_out       \* what that call did

order_vars == <<order_seq, returned, tasks>>
quote_vars == <<now, cache, qcalls, ncalls>>
parse_vars == <<parse_in, parse_out>>
vars == <<order_seq, returned, tasks, connector_name, now, cache, qcalls, ncalls,
          parse_in, parse_out>>

(***************************************************************************)
(* Bounds of the model.                                                    *)
(***************************************************************************)
MaxOrders == 2      \* buy()/sell() calls in one behaviour
SigBits == 3        \* significand bits of the modelled float (a double has 53)

(***************************************************************************)
(* Attributes of the connector instance (GatewayBase), fixed after         *)
(* construction.                                                           *)
(***************************************************************************)
chain == "ethereum"
network == "mainnet"
ConnectorNames == {"uniswap/amm", "jupiter/router"}
address == "0xwallet"

(***************************************************************************)
(* Inputs.                                                                 *)
(***************************************************************************)
PairEU == <<"E", "-", "U">>
PairNoDash == <<"E", "U">>
PairTwoDash == <<"E", "-", "U", "-", "D">>
TradingPairs == {PairEU, PairNoDash, PairTwoDash}
\* 3 is not a multiple of the size quantum; BigAmount is, and needs SigBits+1
\* significand bits.
BigAmount == 2 ^ (SigBits + 1) + 2
Amounts == {3, BigAmount}
Prices == {5}

None == <<>>
Some(v) == <<v>>

(***************************************************************************)
(* str.split(sep) for a one-character separator: the parts between the     *)
(* separators, in order (always at least one part).                        *)
(***************************************************************************)
RECURSIVE SplitFrom(_, _, _, _)
SplitFrom(s, sep, i, cur) ==
    IF i > Len(s) THEN <<cur>>
    ELSE IF s[i] = sep THEN <<cur>> \o SplitFrom(s, sep, i + 1, <<>>)
    ELSE SplitFrom(s, sep, i + 1, Append(cur, s[i]))

split(s, sep) == SplitFrom(s, sep, 1, <<>>)

(***************************************************************************)
(* float(amount): the nearest value with SigBits significant bits, ties to *)
(* the even significand.                                                   *)
(***************************************************************************)
RECURSIVE BitLen(_)
BitLen(n) == IF n = 0 THEN 0 ELSE 1 + BitLen(n \div 2)

float(n) ==
    IF BitLen(n) <= SigBits THEN n
    ELSE LET unit == 2 ^ (BitLen(n) - SigBits)
             m == n \div unit
             rem == n - m * unit
         IN  IF 2 * rem < unit THEN m * unit
             ELSE IF 2 * rem > unit THEN (m + 1) * unit
             ELSE IF m % 2 = 0 THEN m * unit ELSE (m + 1) * unit

(***************************************************************************)
(* The base class (GatewayBase / ConnectorBase), which is not part of the  *)
(* adapter's file.                                                         *)
(***************************************************************************)
order_size_quantum == 2
order_price_quantum == 2

quantize_order_amount(trading_pair, amount) ==
    (amount \div order_size_quantum) * order_size_quantum

quantize_order_price(trading_pair, price) ==
    (price \div order_price_quantum) * order_price_quantum

\* A fresh client order id, made of the side, the pair and a nonce.
create_market_order_id(side, trading_pair) ==
    [side |-> side, trading_pair |-> trading_pair, nonce |-> order_seq + 1]

\* Ways a quantize call of the base class can end.
QuantizeOutcomes == {"ok", "amount_raises", "price_raises"}

(***************************************************************************)
(* _create_order, lines 175-201: the calls the coroutine makes up to its   *)
(* await, in the order it makes them.                                      *)
(***************************************************************************)
start_tracking_order(order_id, trading_pair, trade_type, price, amount) ==
    [op |-> "start_tracking_order", order_id |-> order_id,
     trading_pair |-> trading_pair, trade_type |-> trade_type,
     price |-> price, amount |-> amount]

ExecuteSwapParams(base, quote, amount, price, trade_type) ==
    [walletAddress |-> address, baseToken |-> base, quoteToken |-> quote,
     amount |-> float(amount), side |-> trade_type]

execute_transaction(method, params, order_id) ==
    [op |-> "execute_transaction", chain |-> chain, network |-> network,
     connector |-> connector_name, method |-> method, params |-> params,
     order_id |-> order_id]

\* Mutant: the swap is submitted before the order is tracked.
CreateOrderCalls_SubmitFirst(t, amount, price, base, quote) ==
    << execute_transaction("execute-swap",
                           ExecuteSwapParams(base, quote, amount, price, t.trade_type),
                           t.order_id),
       start_tracking_order(t.order_id, t.trading_pair, t.trade_type, price, amount) >>

\* t: the coroutine's arguments; amount, price: the quantized values.
CreateOrderCalls(t, amount, price, base, quote) ==
    << start_tracking_order(t.order_id, t.trading_pair, t.trade_type, price, amount),
       execute_transaction("execute-swap",
                           ExecuteSwapParams(base, quote, amount, price, t.trade_type),
                           t.order_id) >>

\* The coroutine from its start to its first suspension (or its end).
CreateOrderBody(t, outcome) ==
    LET amount == quantize_order_amount(t.trading_pair, t.amount)
        price == quantize_order_price(t.trading_pair, t.price)
        parts == split(t.trading_pair, "-")
    IN  IF outcome # "ok"
        THEN [t EXCEPT !.pc = "raised", !.exc = "QuantizeError"]
        ELSE IF Len(parts) # 2
        THEN [t EXCEPT !.pc = "raised", !.exc = "ValueError"]
        ELSE [t EXCEPT !.pc = "awaiting",
                       !.calls = CreateOrderCalls(t, amount, price, parts[1], parts[2])]

\* except Exception: line 209.
handle_operation_failure(order_id, trading_pair, operation_name, error) ==
    [op |-> "_handle_operation_failure", order_id |-> order_id,
     trading_pair |-> trading_pair, operation_name |-> operation_name,
     error |-> error]

SubmitErrors == {"GatewayError", "TimeoutError"}

\* Mutant: the exception leaves the task and nobody is told.
CreateOrderOnError_Reraise(t, e) ==
    [t EXCEPT !.pc = "raised", !.exc = e]

\* The coroutine resumed with an exception raised by execute_transaction.
CreateOrderOnError(t, e) ==
    [t EXCEPT !.pc = "handled",
              !.calls = Append(@, handle_operation_failure(
                            t.order_id, t.trading_pair,
                            <<"submitting", t.trade_type, "swap order">>, e))]

\* The coroutine resumed with execute_transaction's normal return: line 204.
CreateOrderOnReturn(t) ==
    [t EXCEPT !.pc = "done",
              !.calls = Append(@, [op |-> "logger.info", msg |-> "submitted",
                                   order_id |-> t.order_id])]

(***************************************************************************)
(* place_order, buy, sell: lines 122-156.                                  *)
(***************************************************************************)
TradeTypeOf(is_buy) == IF is_buy THEN "BUY" ELSE "SELL"

\* The coroutine object handed to safe_ensure_future, and the id returned.
place_order(is_buy, trading_pair, amount, price) ==
    LET side == TradeTypeOf(is_buy)
        order_id == create_market_order_id(side, trading_pair)
    IN  [task |-> [trade_type |-> side, order_id |-> order_id,
                   trading_pair |-> trading_pair, amount |-> amount,
                   price |-> price, pc |-> "scheduled", exc |-> "none",
                   submit |-> "pending", calls |-> <<>>],
         result |-> order_id]

buy(trading_pair, amount, price) == place_order(TRUE, trading_pair, amount, price)

\* Mutant: sell places a buy order.
sell_AsBuy(trading_pair, amount, price) == place_order(TRUE, trading_pair, amount, price)

sell(trading_pair, amount, price) == place_order(FALSE, trading_pair, amount, price)

Place(api, placed) ==
    /\ order_seq < MaxOrders
    /\ order_seq' = order_seq + 1
    /\ tasks' = Append(tasks, placed.task)
    /\ returned' = Append(returned, [api |-> api, order_id |-> placed.result])
    /\ UNCHANGED <<connector_name, quote_vars, parse_vars>>

BuyIn(pairs, amounts) ==
    \E tp \in pairs, a \in amounts, p \in Prices : Place("buy", buy(tp, a, p))

SellIn(pairs, amounts) ==
    \E tp \in pairs, a \in amounts, p \in Prices : Place("sell", sell(tp, a, p))

Buy == BuyIn(TradingPairs, Amounts)

Sell == SellIn(TradingPairs, Amounts)

\* The event loop runs a scheduled _create_order up to its await.
CreateOrderRun ==
    \E i \in DOMAIN tasks, outcome \in QuantizeOutcomes :
        /\ tasks[i].pc = "scheduled"
        /\ tasks' = [tasks EXCEPT ![i] = CreateOrderBody(tasks[i], outcome)]
        /\ UNCHANGED <<order_seq, returned, connector_name, quote_vars, parse_vars>>

ExecuteTransactionReturns ==
    \E i \in DOMAIN tasks :
        /\ tasks[i].pc = "awaiting"
        /\ tasks' = [tasks EXCEPT ![i] =
                        CreateOrderOnReturn([tasks[i] EXCEPT !.submit = "returned"])]
        /\ UNCHANGED <<order_seq, returned, connector_name, quote_vars, parse_vars>>

ExecuteTransactionRaises ==
    \E i \in DOMAIN tasks, e \in SubmitErrors :
        /\ tasks[i].pc = "awaiting"
        /\ tasks' = [tasks EXCEPT ![i] =
                        CreateOrderOnError([tasks[i] EXCEPT !.submit = e], e)]
        /\ UNCHANGED <<order_seq, returned, connector_name, quote_vars, parse_vars>>

\* asyncio cancels the task: CancelledError is raised at the await (re-raised
\* by line 207), or the coroutine never starts.
CancelTask ==
    \E i \in DOMAIN tasks :
        /\ tasks[i].pc \in {"scheduled", "awaiting"}
        /\ tasks' = [tasks EXCEPT ![i].pc = "cancelled", ![i].exc = "CancelledError"]
        /\ UNCHANGED <<order_seq, returned, connector_name, quote_vars, parse_vars>>


(***************************************************************************)
(* Values of a gateway response: an int, a str or None.                    *)
(***************************************************************************)
PyInt(n) == [t |-> "int", int |-> n]
PyStr(s) == [t |-> "str", chars |-> s]
PyNone == [t |-> "NoneType"]

DigitChars == <<"0", "1", "2", "3", "4", "5", "6", "7", "8", "9">>

RECURSIVE IntDigits(_)
IntDigits(n) ==
    IF n < 10 THEN <<DigitChars[n + 1]>>
    ELSE Append(IntDigits(n \div 10), DigitChars[(n % 10) + 1])

\* str(x)
str(x) ==
    CASE x.t = "int" -> IntDigits(x.int)
      [] x.t = "str" -> x.chars
      [] x.t = "NoneType" -> <<"N", "o", "n", "e">>

\* Decimal(s): the strings of the model are digits and letters only, so s is a
\* decimal literal exactly when it is a non-empty run of digits; on any other
\* string Decimal raises decimal.InvalidOperation.
IsDigit(ch) == \E d \in DOMAIN DigitChars : DigitChars[d] = ch

IsDecimalLiteral(s) == Len(s) > 0 /\ \A i \in DOMAIN s : IsDigit(s[i])

DigitValue(ch) == (CHOOSE d \in DOMAIN DigitChars : DigitChars[d] = ch) - 1

RECURSIVE DecimalValue(_)
DecimalValue(s) ==
    IF s = <<>> THEN 0
    ELSE 10 * DecimalValue(SubSeq(s, 1, Len(s) - 1)) + DigitValue(s[Len(s)])

(***************************************************************************)
(* parse_price_response, lines 93-120.  The result says whether the call   *)
(* raised, what it returned and what it logged.                            *)
(***************************************************************************)
\* Mutant: a missing price raises when process_exception is set.
parse_price_response_Raising(base, quote, amount, side, price_response, process_exception) ==
    IF "price" \notin DOMAIN price_response
    THEN [raised |-> process_exception, value |-> None,
          log |-> IF "info" \in DOMAIN price_response
                  THEN "Unable to get price" ELSE "Missing price in response"]
    ELSE LET s == str(price_response["price"])
         IN  IF IsDecimalLiteral(s)
             THEN [raised |-> FALSE, value |-> Some(DecimalValue(s)), log |-> "none"]
             ELSE [raised |-> TRUE, value |-> None, log |-> "none"]

parse_price_response(base, quote, amount, side, price_response, process_exception) ==
    IF "price" \notin DOMAIN price_response
    THEN [raised |-> FALSE, value |-> None,
          log |-> IF "info" \in DOMAIN price_response
                  THEN "Unable to get price" ELSE "Missing price in response"]
    ELSE LET s == str(price_response["price"])
         IN  IF IsDecimalLiteral(s)
             THEN [raised |-> FALSE, value |-> Some(DecimalValue(s)), log |-> "none"]
             ELSE [raised |-> TRUE, value |-> None, log |-> "none"]

(***************************************************************************)
(* get_quote_price, lines 45-80.                                           *)
(***************************************************************************)
\* common_types.get_connector_type: the type is the suffix of the name.
get_connector_type(name) ==
    CASE name = "uniswap/amm" -> "AMM"
      [] name = "uniswap/clmm" -> "CLMM"
      [] OTHER -> "ROUTER"

EmptyDict == <<>>

\* Lines 54-64.  amount and slippage_pct are the Decimals themselves.
QuotePayload(base, quote, amount, side, slippage_pct, pool_address) ==
    [network |-> network, baseToken |-> base, quoteToken |-> quote,
     amount |-> float(amount), side |-> side]
    @@ (IF slippage_pct # None
        THEN [slippagePct |-> float(slippage_pct[1])] ELSE EmptyDict)
    @@ (IF get_connector_type(connector_name) \in {"CLMM", "AMM"}
           /\ pool_address # None
        THEN [poolAddress |-> pool_address[1]] ELSE EmptyDict)

connector_request(method, connector, endpoint, params) ==
    [op |-> "connector_request", method |-> method, connector |-> connector,
     endpoint |-> endpoint, params |-> params]

\* Mutant: the error is swallowed without a log.
QuoteOnError_Silent(c, e) ==
    [c EXCEPT !.pc = "returned", !.result = None]

\* Mutant: a failed request is sent once more.
QuoteOnError_Retry(c, e) ==
    IF Len(c.requests) = 1
    THEN [c EXCEPT !.pc = "awaiting", !.requests = Append(@, @[1]),
                   !.logs = Append(@, [op |-> "logger.network", app_warning_msg |-> e])]
    ELSE [c EXCEPT !.pc = "returned", !.result = None,
                   !.logs = Append(@, [op |-> "logger.network", app_warning_msg |-> e])]

\* Mutant: the error is logged and raised again.
QuoteOnError_Reraise(c, e) ==
    [c EXCEPT !.pc = "raised", !.exc = e,
              !.logs = Append(@, [op |-> "logger.network", app_warning_msg |-> e])]

\* except Exception, lines 75-80: one network log, and the function ends
\* without a return statement.
QuoteOnError(c, e) ==
    [c EXCEPT !.pc = "returned", !.result = None,
              !.logs = Append(@, [op |-> "logger.network", app_warning_msg |-> e])]

\* The body from its start to the await of line 66.  float(None) raises
\* TypeError inside the try block.
QuoteBegin(c) ==
    LET a == c.args
        parts == split(a.trading_pair, "-")
        side == TradeTypeOf(a.is_buy)
    IN  IF Len(parts) # 2
        THEN [c EXCEPT !.pc = "raised", !.exc = "ValueError"]
        ELSE IF a.amount = None
        THEN QuoteOnError(c, "TypeError")
        ELSE [c EXCEPT !.pc = "awaiting",
                       !.requests = Append(@, connector_request(
                            "get", connector_name, "quote-swap",
                            QuotePayload(parts[1], parts[2], a.amount[1], side,
                                         a.slippage_pct, a.pool_address)))]

\* The body resumed with the gateway's response: line 72.
QuoteOnResponse(c, resp) ==
    LET a == c.args
        parts == split(a.trading_pair, "-")
        r == parse_price_response(parts[1], parts[2], a.amount[1],
                                  TradeTypeOf(a.is_buy), resp, TRUE)
    IN  IF r.raised THEN QuoteOnError(c, "InvalidOperation")
        ELSE [c EXCEPT !.pc = "returned", !.result = r.value]

QuoteArgs(trading_pair, is_buy, amount, slippage_pct, pool_address) ==
    [trading_pair |-> trading_pair, is_buy |-> is_buy, amount |-> amount,
     slippage_pct |-> slippage_pct, pool_address |-> pool_address]

\* Mutant: get_order_price asks for the quote with a default slippage.
get_order_price_WithSlippage(trading_pair, is_buy, amount) ==
    QuoteArgs(trading_pair, is_buy, amount, Some(1), None)

\* get_order_price, lines 82-91: the arguments it calls get_quote_price with.
get_order_price(trading_pair, is_buy, amount) ==
    QuoteArgs(trading_pair, is_buy, amount, None, None)

(***************************************************************************)
(* async_ttl_cache(ttl=5, maxsize=10), line 28.  The decorator is defined  *)
(* in hummingbot.core.utils: a memoizing wrapper over a TTL cache keyed by *)
(* the call's arguments.  An entry lives for ttl seconds from the moment   *)
(* it is stored; storing into a full cache drops the oldest entry.         *)
(***************************************************************************)
ttl == 5
maxsize == 10

Expire(entries, time) == SelectSeq(entries, LAMBDA e : time < e.expires)

CacheHas(entries, key) == \E i \in DOMAIN entries : entries[i].key = key

CacheGet(entries, key) ==
    entries[CHOOSE i \in DOMAIN entries : entries[i].key = key].value

CachePut(entries, key, value, time) ==
    LET others == SelectSeq(Expire(entries, time), LAMBDA e : e.key # key)
        kept == IF Len(others) >= maxsize THEN Tail(others) ELSE others
    IN  Append(kept, [key |-> key, value |-> value, expires |-> time + ttl])

\* The wrapper's lookup: a live entry answers the call, else the body runs.
Memoize(c) ==
    IF CacheHas(Expire(cache, now), c.args)
    THEN [c EXCEPT !.pc = "returned", !.hit = TRUE,
                   !.result = CacheGet(Expire(cache, now), c.args)]
    ELSE QuoteBegin(c)

\* The wrapper after the body: a value the body returned is stored.
Stored(old, c) ==
    IF c.pc = "returned" /\ ~c.hit
    THEN CachePut(old, c.args, c.result, now) ELSE Expire(old, now)

IdleCall ==
    [api |-> "none", pc |-> "idle"]

\* given: the arguments of the public method called; args: the arguments the
\* decorated get_quote_price receives.
NewCall(api, given, args) ==
    [api |-> api, given |-> given, args |-> args, t0 |-> now, pc |-> "called", exc |-> "none",
     hit |-> FALSE, gateway |-> "none", resp |-> None, result |-> None,
     requests |-> <<>>, logs |-> <<>>]

(***************************************************************************)
(* Callers of the quote interface, the gateway and the clock.              *)
(***************************************************************************)
MaxCalls == 2       \* quote calls in one behaviour of QuoteSpec and Spec
MaxTicks == 1       \* the clock advances this many times, ttl seconds each

Callers == {1, 2}
Pool == "0xpool"
\* Arguments of get_quote_price: a plain quote, one with slippage and pool, one
\* with slippage only, a pair without "-", and an amount of None.
QuoteCases ==
    { QuoteArgs(PairEU, TRUE, Some(3), None, None),
      QuoteArgs(PairEU, FALSE, Some(BigAmount), Some(1), Some(Pool)),
      QuoteArgs(PairEU, TRUE, Some(3), Some(1), None),
      QuoteArgs(PairNoDash, TRUE, Some(3), None, None),
      QuoteArgs(PairEU, FALSE, None, None, Some(Pool)) }
\* Arguments of get_order_price.
OrderPriceCases ==
    { <<PairEU, TRUE, Some(3)>>, <<PairEU, FALSE, Some(BigAmount)>>,
      <<PairNoDash, FALSE, Some(3)>> }
RespPrice == [price |-> PyInt(7)]
RespInfo == [info |-> PyStr(<<"x">>)]
RespNullPrice == [price |-> PyNone]
QuoteResponses == {RespPrice, RespInfo, RespNullPrice}
QuoteErrors == {"GatewayError"}

\* A caller calls the decorated get_quote_price: the wrapper's lookup and, on a
\* miss, the body up to its await.
StartCall(c, api, given, args) ==
    /\ qcalls[c].pc # "awaiting"
    /\ LET started == Memoize(NewCall(api, given, args))
       IN  /\ qcalls' = [qcalls EXCEPT ![c] = started]
           /\ cache' = Stored(cache, started)
    /\ ncalls' = IF ncalls < MaxCalls THEN ncalls + 1 ELSE ncalls
    /\ UNCHANGED <<now, order_vars, connector_name, parse_vars>>

\* The awaited body resumes and ends; the wrapper stores what it returned.
Resume(c, resumed) ==
    /\ qcalls' = [qcalls EXCEPT ![c] = resumed]
    /\ cache' = Stored(cache, resumed)
    /\ UNCHANGED <<now, ncalls, order_vars, connector_name, parse_vars>>

GetQuotePriceIn(callers, cases) ==
    \E c \in callers, args \in cases : StartCall(c, "get_quote_price", args, args)

GetOrderPriceIn(callers, cases) ==
    \E c \in callers, a \in cases :
        StartCall(c, "get_order_price", a, get_order_price(a[1], a[2], a[3]))

GetQuotePrice == ncalls < MaxCalls /\ GetQuotePriceIn(Callers, QuoteCases)

GetOrderPrice == ncalls < MaxCalls /\ GetOrderPriceIn(Callers, OrderPriceCases)

QuoteResponseIn(resps) ==
    \E c \in Callers, resp \in resps :
        /\ qcalls[c].pc = "awaiting"
        /\ Resume(c, QuoteOnResponse([qcalls[c] EXCEPT !.gateway = "responded",
                                                       !.resp = Some(resp)], resp))

QuoteResponse == QuoteResponseIn(QuoteResponses)

QuoteRaises ==
    \E c \in Callers, e \in QuoteErrors :
        /\ qcalls[c].pc = "awaiting"
        /\ Resume(c, QuoteOnError([qcalls[c] EXCEPT !.gateway = e], e))

\* asyncio cancels the caller: CancelledError is re-raised by line 74 and
\* leaves the wrapper without a store.
QuoteCancelled ==
    \E c \in Callers :
        /\ qcalls[c].pc = "awaiting"
        /\ Resume(c, [qcalls[c] EXCEPT !.pc = "cancelled", !.exc = "CancelledError"])

\* The clock advances by one TTL.
Tick ==
    /\ now < MaxTicks * ttl
    /\ now' = now + ttl
    /\ UNCHANGED <<cache, qcalls, ncalls, order_vars, connector_name, parse_vars>>

(***************************************************************************)
(* A direct call of parse_price_response.                                  *)
(***************************************************************************)
Tokens == {<<"E">>, <<"U">>}
ParseResponses ==
    { RespPrice, RespInfo, RespNullPrice, EmptyDict,
      [price |-> PyInt(120)],
      [price |-> PyStr(<<"1", "2">>)],
      [price |-> PyStr(<<"a", "b">>)],
      [price |-> PyInt(7), info |-> PyStr(<<"x">>)],
      [other |-> PyInt(1)] }
ParseInputs ==
    [base : Tokens, quote : Tokens, amount : Amounts, side : {"BUY", "SELL"},
     price_response : ParseResponses, process_exception : BOOLEAN]

ParsePriceResponse ==
    /\ parse_in # None
    /\ parse_out = None
    /\ parse_out' = Some(parse_price_response(
                        parse_in[1].base, parse_in[1].quote, parse_in[1].amount,
                        parse_in[1].side, parse_in[1].price_response,
                        parse_in[1].process_exception))
    /\ UNCHANGED <<parse_in, order_vars, connector_name, quote_vars>>

(***************************************************************************)
(* The state after construction, and the specifications.                   *)
(***************************************************************************)
Constructed ==
    /\ order_seq = 0
    /\ returned = <<>>
    /\ tasks = <<>>
    /\ now = 0
    /\ cache = <<>>
    /\ qcalls = [c \in Callers |-> IdleCall]
    /\ ncalls = 0
    /\ parse_out = None

Init ==
    /\ Constructed
    /\ connector_name \in ConnectorNames
    /\ parse_in = None

OrderNext ==
    \/ Buy
    \/ Sell
    \/ CreateOrderRun
    \/ ExecuteTransactionReturns
    \/ ExecuteTransactionRaises
    \/ CancelTask

\* Orders placed through buy() and sell().
OrderSpec == Init /\ [][OrderNext]_vars

QuoteNext ==
    \/ GetQuotePrice
    \/ GetOrderPrice
    \/ QuoteResponse
    \/ QuoteRaises
    \/ QuoteCancelled

\* Quote calls issued within one TTL window.
QuoteSpec == Init /\ [][QuoteNext]_vars

\* Orders and quotes side by side: one caller, well-formed and malformed
\* pairs, one order fewer than in OrderSpec.
PlainBuy == order_seq < MaxOrders - 1 /\ BuyIn({PairEU, PairNoDash}, {3})

PlainSell == order_seq < MaxOrders - 1 /\ SellIn({PairEU}, {3})

PlainQuote ==
    /\ ncalls < MaxCalls
    /\ GetQuotePriceIn({1}, { QuoteArgs(PairEU, TRUE, Some(3), None, None),
                             QuoteArgs(PairEU, TRUE, None, None, None) })

PlainOrderPrice ==
    ncalls < MaxCalls /\ GetOrderPriceIn({1}, { <<PairEU, TRUE, Some(3)>> })

Next ==
    \/ PlainBuy
    \/ PlainSell
    \/ CreateOrderRun
    \/ ExecuteTransactionReturns
    \/ ExecuteTransactionRaises
    \/ CancelTask
    \/ PlainQuote
    \/ PlainOrderPrice
    \/ QuoteResponse
    \/ QuoteRaises
    \/ QuoteCancelled

Spec == Init /\ [][Next]_vars

(***************************************************************************)
(* The cache under load.  Caller 1 asks for quotes of maxsize + 1 amounts  *)
(* in turn, round and round; caller 2 asks for the first amount again and  *)
(* again; the clock runs; the gateway fails while no failed result is      *)
(* stored.                                                                 *)
(***************************************************************************)
SweepArgs(k) == QuoteArgs(PairEU, TRUE, Some(k), None, None)

NextKey ==
    IF qcalls[1].pc = "idle" THEN 1
    ELSE (qcalls[1].args.amount[1] % (maxsize + 1)) + 1

SweepQuote == GetQuotePriceIn({1}, {SweepArgs(NextKey)})

ProbeQuote == GetQuotePriceIn({2}, {SweepArgs(1)})

SweepResponse == QuoteResponseIn({RespPrice})

SweepRaises ==
    /\ \A i \in DOMAIN cache : cache[i].value # None
    /\ QuoteRaises

CacheInit ==
    /\ Constructed
    /\ connector_name = "jupiter/router"
    /\ parse_in = None

CacheNext ==
    \/ SweepQuote
    \/ ProbeQuote
    \/ SweepResponse
    \/ SweepRaises
    \/ Tick

CacheSpec == CacheInit /\ [][CacheNext]_vars

ParseInit ==
    /\ Constructed
    /\ connector_name = "jupiter/router"
    /\ parse_in \in {Some(i) : i \in ParseInputs}

ParseNext == ParsePriceResponse

ParseSpec == ParseInit /\ [][ParseNext]_vars

(***************************************************************************)
(* Properties.                                                             *)
(***************************************************************************)
CallsOf(t, op) == SelectSeq(t.calls, LAMBDA call : call.op = op)

Submitted(t) == CallsOf(t, "execute_transaction") # <<>>

ApiSide(api) == IF api = "buy" THEN "BUY" ELSE "SELL"

Active(c) == qcalls[c].pc # "idle"

\* C1: buy() creates a BUY order and sell() a SELL order; the id returned to
\* the caller is the id passed to start_tracking_order and to the execute-swap
\* submission, whose side parameter is the order's side; no submission carries
\* an id that no buy()/sell() returned.
C1_SideAndIdMapping ==
    /\ Len(tasks) = Len(returned)
    /\ \A i \in DOMAIN returned :
        LET id == returned[i].order_id
            side == ApiSide(returned[i].api)
            t == tasks[i]
        IN  /\ t.order_id = id
            /\ t.trade_type = side
            /\ \A k \in DOMAIN t.calls :
                /\ t.calls[k].order_id = id
                /\ t.calls[k].op = "start_tracking_order"
                      => t.calls[k].trade_type = side
                /\ t.calls[k].op = "execute_transaction"
                      => /\ t.calls[k].method = "execute-swap"
                         /\ t.calls[k].params.side = side
    /\ \A j \in DOMAIN tasks : \A k \in DOMAIN tasks[j].calls :
        tasks[j].calls[k].op = "execute_transaction"
            => \E i \in DOMAIN returned :
                   returned[i].order_id = tasks[j].calls[k].order_id

\* A buy and a sell have both been submitted.
C1_Witness ==
    \E i, j \in DOMAIN returned :
        /\ returned[i].api = "buy" /\ Submitted(tasks[i])
        /\ returned[j].api = "sell" /\ Submitted(tasks[j])

\* C2: every order id returned by place_order is tracked once its scheduled
\* task has run without being cancelled, also when quantizing or splitting the
\* trading pair fails.
C2_EveryPlacedOrderTracked ==
    \A i \in DOMAIN tasks :
        tasks[i].pc \in {"awaiting", "done", "handled", "raised"}
            => \E k \in DOMAIN tasks[i].calls :
                   /\ tasks[i].calls[k].op = "start_tracking_order"
                   /\ tasks[i].calls[k].order_id = returned[i].order_id
                   /\ tasks[i].calls[k].trading_pair = tasks[i].trading_pair
                   /\ tasks[i].calls[k].trade_type = ApiSide(returned[i].api)

\* C3: when the submission raises, _handle_operation_failure is called exactly
\* once with the order's id and trading pair, the exception does not leave the
\* task and the order is not logged as submitted; when the submission returns,
\* _handle_operation_failure is not called.
C3_SubmissionFailureSurfaced ==
    \A i \in DOMAIN tasks :
        LET t == tasks[i]
            failures == CallsOf(t, "_handle_operation_failure")
            logged == CallsOf(t, "logger.info")
        IN  /\ t.submit \in SubmitErrors
                => /\ Len(failures) = 1
                   /\ failures[1].order_id = t.order_id
                   /\ failures[1].trading_pair = t.trading_pair
                   /\ failures[1].error = t.submit
                   /\ t.pc = "handled"
                   /\ t.exc = "none"
                   /\ logged = <<>>
            /\ t.submit \notin SubmitErrors => failures = <<>>
            /\ t.submit = "returned" => Len(logged) = 1 /\ t.pc = "done"

\* A submission has failed and another has returned.
C3_Witness ==
    \E i, j \in DOMAIN tasks :
        tasks[i].submit \in SubmitErrors /\ tasks[j].submit = "returned"

TrackedBefore(t, k) ==
    {j \in 1 .. (k - 1) : /\ t.calls[j].op = "start_tracking_order"
                          /\ t.calls[j].order_id = t.calls[k].order_id}

\* C9 as amended: start_tracking_order for the order id comes strictly before
\* the submission and before any failure report; tracking records the
\* quantized amount and price; the submission carries float() of the tracked
\* amount (the amount itself when it fits the significand) and no price.
C9_TrackingPrecedesSubmission ==
    \A i \in DOMAIN tasks :
        LET t == tasks[i]
        IN  \A k \in DOMAIN t.calls :
              /\ t.calls[k].op \in {"execute_transaction", "_handle_operation_failure"}
                    => TrackedBefore(t, k) # {}
              /\ t.calls[k].op = "start_tracking_order"
                    => /\ t.calls[k].amount =
                              quantize_order_amount(t.trading_pair, t.amount)
                       /\ t.calls[k].price =
                              quantize_order_price(t.trading_pair, t.price)
              /\ t.calls[k].op = "execute_transaction"
                    => \A j \in TrackedBefore(t, k) :
                         /\ t.calls[k].params.amount = float(t.calls[j].amount)
                         /\ BitLen(t.calls[j].amount) <= SigBits
                               => t.calls[k].params.amount = t.calls[j].amount
                         /\ DOMAIN t.calls[k].params =
                                {"walletAddress", "baseToken", "quoteToken",
                                 "amount", "side"}

\* C9 as claimed: the amount sent is the very amount recorded in tracking.
C9_SameAmountSent ==
    \A i \in DOMAIN tasks :
        \A k \in DOMAIN tasks[i].calls :
            tasks[i].calls[k].op = "execute_transaction"
                => /\ TrackedBefore(tasks[i], k) # {}
                   /\ \A j \in TrackedBefore(tasks[i], k) :
                        tasks[i].calls[k].params.amount = tasks[i].calls[j].amount

\* A failed submission of an order whose amount quantizing changed, and a
\* submission of an amount that float() rounds.
C9_Witness ==
    \E i, j \in DOMAIN tasks :
        /\ tasks[i].pc = "handled" /\ tasks[i].amount = 3
        /\ Submitted(tasks[j]) /\ tasks[j].amount = BigAmount

FailedQuote(r, e) ==
    /\ r.pc = "returned"
    /\ r.exc = "none"
    /\ r.result = None
    /\ Len(r.logs) = 1
    /\ r.logs[1].op = "logger.network"
    /\ r.logs[1].app_warning_msg = e

\* C4: when the quote request, the building of its payload or the parsing of
\* its response raises, get_quote_price logs once through the network logger
\* and the caller gets None, never a price; a response with a price yields
\* that price and no log.
C4_QuoteErrorsLoggedAndSurfaced ==
    \A c \in Callers :
        LET r == qcalls[c]
        IN  Active(c) =>
              /\ r.gateway \in QuoteErrors => FailedQuote(r, r.gateway)
              /\ r.resp = Some(RespNullPrice) => FailedQuote(r, "InvalidOperation")
              /\ (~r.hit /\ r.args.amount = None /\ r.args.trading_pair = PairEU)
                    => FailedQuote(r, "TypeError") /\ r.requests = <<>>
              /\ r.resp = Some(RespPrice)
                    => /\ r.pc = "returned"
                       /\ r.result = Some(7)
                       /\ r.logs = <<>>
              /\ r.exc \notin QuoteErrors \cup {"InvalidOperation", "TypeError"}

\* The gateway has failed one get_order_price call and answered another call
\* with a null price.
C4_Witness ==
    \E c, d \in Callers :
        /\ Active(c) /\ Active(d)
        /\ qcalls[c].api = "get_order_price" /\ qcalls[c].gateway \in QuoteErrors
        /\ qcalls[d].resp = Some(RespNullPrice)

ExecutionsFor(id) ==
    {jk \in {<<j, k>> : j \in DOMAIN tasks, k \in 1 .. 3} :
        /\ jk[2] \in DOMAIN tasks[jk[1]].calls
        /\ tasks[jk[1]].calls[jk[2]].op = "execute_transaction"
        /\ tasks[jk[1]].calls[jk[2]].order_id = id}

\* C5: a run of the get_quote_price body issues at most one quote-swap
\* request, an order gets at most one execute-swap submission, and neither is
\* sent again after it failed.
C5_OneGatewayCallPerOperation ==
    /\ \A c \in Callers :
        Active(c) =>
          /\ Len(qcalls[c].requests) <= 1
          /\ \A k \in DOMAIN qcalls[c].requests :
                qcalls[c].requests[k].endpoint = "quote-swap"
          /\ qcalls[c].gateway \in QuoteErrors
                => qcalls[c].pc = "returned" /\ Len(qcalls[c].requests) = 1
    /\ \A i \in DOMAIN returned :
          /\ Cardinality(ExecutionsFor(returned[i].order_id)) <= 1
          /\ Len(tasks[i].calls) <= 3
          /\ tasks[i].submit \in SubmitErrors
                => /\ tasks[i].pc = "handled"
                   /\ Cardinality(ExecutionsFor(returned[i].order_id)) = 1

\* A quote request and a submission have both failed.
C5_Witness ==
    /\ \E c \in Callers : Active(c) /\ qcalls[c].gateway \in QuoteErrors
    /\ \E i \in DOMAIN tasks : tasks[i].submit \in SubmitErrors

PlainPayload(given) ==
    [network |-> network, baseToken |-> <<"E">>, quoteToken |-> <<"U">>,
     amount |-> float(given[3][1]), side |-> IF given[2] THEN "BUY" ELSE "SELL"]

C6_OrderPriceState ==
    \A c \in Callers :
        LET r == qcalls[c]
        IN  (Active(c) /\ r.api = "get_order_price") =>
              /\ r.args = QuoteArgs(r.given[1], r.given[2], r.given[3], None, None)
              /\ Len(r.requests) <= 1
              /\ \A k \in DOMAIN r.requests :
                    /\ r.requests[k].endpoint = "quote-swap"
                    /\ r.requests[k].params = PlainPayload(r.given)
              /\ r.resp = Some(RespPrice) => r.result = Some(7)
              /\ r.resp = Some(RespInfo) => r.pc = "returned" /\ r.result = None

C6_OrderPriceStep ==
    \A c \in Callers :
        ( /\ qcalls[c].pc # "awaiting"
          /\ qcalls'[c] # qcalls[c]
          /\ qcalls'[c].api = "get_order_price" )
        => LET g == qcalls'[c].given
               direct == Memoize(NewCall("get_quote_price", g,
                                         QuoteArgs(g[1], g[2], g[3], None, None)))
           IN  qcalls'[c] = [direct EXCEPT !.api = "get_order_price"]

\* C6: get_order_price(trading_pair, is_buy, amount) does what
\* get_quote_price(trading_pair, is_buy, amount) with no slippage and no pool
\* address does in the same state: the same lookup, the same single request
\* without slippagePct and poolAddress, the same result (None included).
C6_OrderPriceIsQuotePrice == []C6_OrderPriceState /\ [][C6_OrderPriceStep]_vars

\* One get_order_price call got a price from the gateway, another was answered
\* by the cache.
C6_Witness ==
    \E c, d \in Callers :
        /\ Active(c) /\ Active(d)
        /\ qcalls[c].api = "get_order_price" /\ qcalls[c].resp = Some(RespPrice)
        /\ qcalls[d].api = "get_order_price" /\ qcalls[d].hit

PriceOf(field) ==
    CASE field.t = "int" -> [raised |-> FALSE, value |-> Some(field.int)]
      [] field.t = "str" /\ IsDecimalLiteral(field.chars)
            -> [raised |-> FALSE, value |-> Some(DecimalValue(field.chars))]
      [] OTHER -> [raised |-> TRUE, value |-> None]

LiveEntries(key) ==
    {i \in DOMAIN cache : cache[i].key = key /\ now < cache[i].expires}

C8_CacheState ==
    /\ Len(cache) <= maxsize
    /\ \A i, j \in DOMAIN cache : cache[i].key = cache[j].key => i = j
    /\ \A i \in DOMAIN cache : cache[i].expires <= now + ttl
    /\ \A c \in Callers :
          (Active(c) /\ qcalls[c].hit)
             => /\ qcalls[c].pc = "returned"
                /\ qcalls[c].requests = <<>>
                /\ qcalls[c].logs = <<>>

C8_CacheStep ==
    \A c \in Callers :
        /\ (qcalls[c].pc # "awaiting" /\ qcalls'[c] # qcalls[c])
              => IF LiveEntries(qcalls'[c].args) # {}
                 THEN /\ qcalls'[c].hit
                      /\ qcalls'[c].requests = <<>>
                      /\ \E i \in LiveEntries(qcalls'[c].args) :
                            qcalls'[c].result = cache[i].value
                 ELSE ~qcalls'[c].hit /\ Len(qcalls'[c].requests) = 1
        /\ (qcalls[c].pc = "awaiting" /\ qcalls'[c] # qcalls[c])
              => /\ qcalls'[c].pc = "returned"
                 /\ qcalls'[c].gateway \in QuoteErrors => qcalls'[c].result = None
                 /\ \E i \in DOMAIN cache' :
                       cache'[i] = [key |-> qcalls'[c].args,
                                    value |-> qcalls'[c].result,
                                    expires |-> now + ttl]

====
